---------------------------- MODULE Spec2Model ----------------------------
(***************************************************************************)
(* Model of the Atelier Agent web application:                             *)
(*   - the Generate route handler  (src/web/src/app/api/generate/route.ts) *)
(*   - the Upload route handler    (src/web/src/app/api/upload/route.ts)   *)
(*   - the ArtAgent client component (src/web/src/components/ArtAgent.tsx) *)
(*                                                                         *)
(* Text is modelled as a sequence of atoms: an atom is one character (" "  *)
(* is the whitespace character, "a" a non-whitespace one) or one fixed     *)
(* piece of text of the program (", ", "Prompt: ", a style descriptor).    *)
(* Concatenation is \o, so trimming, template literals and join() are      *)
(* computed, not assumed.                                                  *)
(*                                                                         *)
(* Guidance numbers are counted in halves (the slider's step, 0.5):        *)
(* 15 stands for 7.5, 2 for 1 and 40 for 20.                               *)
(*                                                                         *)
(* A handler that ends by an exception nobody catches sends no response of *)
(* its own: its position becomes "threw" and its response stays            *)
(* NoResponse.                                                             *)
(***************************************************************************)
EXTENDS Integers, Sequences, FiniteSets, TLC

VARIABLES
    \* ---- Generate handler, one invocation ----
    gPc,        \* "idle", "awaitUpstream", "responded", "threw"
    gKey,       \* process.env.STABILITY_API_KEY is set
    gReq,       \* the request body as received
    gCalls,     \* bodies POSTed to STABILITY_ENDPOINT, in order
    gAnswers,   \* what fetch answered to each of them, in order
    gResp,      \* the response of the handler
    \* ---- Upload handler, one invocation ----
    uPc,        \* "idle", "awaitHosting", "awaitContainer", "awaitPublish", "responded", "threw"
    uEnv,       \* which of the five credentials are set
    uReq,       \* the request body as received
    uCalls,     \* outbound calls, in order
    uAnswers,   \* what fetch answered to each of them, in order
    uUrl,       \* cloudinaryUrl
    uContainerId, \* containerJson.id
    uResp,      \* the response of the handler
    \* ---- ArtAgent component ----
    prompt, style, caption,          \* form fields
    isGenerating, isUploading,       \* in-progress flags
    generationError, uploadError,    \* error texts, "null" when none
    generationMeta,                  \* metadata of the latest generation
    history,                         \* GeneratedImage[], most recent first
    genInFlight,                     \* pending postJSON("/api/generate") calls
    uplInFlight,                     \* pending postJSON("/api/upload") calls
    clock,                           \* the last reading of Date.now()
    succeeded                        \* generations that have succeeded so far

genVars == <<gPc, gKey, gReq, gCalls, gAnswers, gResp>>
uplVars == <<uPc, uEnv, uReq, uCalls, uAnswers, uUrl, uContainerId, uResp>>
uiVars  == <<prompt, style, caption, isGenerating, isUploading, generationError,
             uploadError, generationMeta, history, genInFlight, uplInFlight, clock,
             succeeded>>
vars    == <<genVars, uplVars, uiVars>>

-----------------------------------------------------------------------------
(* Bounds of the model *)

\* longest text typed into a free-text field
MaxStrLen == 3
\* guidance values range over -GuidanceRange..GuidanceRange halves
GuidanceRange == 42
\* generations started in one session of the component
MaxGenerations == 2

-----------------------------------------------------------------------------
(* Text *)

Chars == {" ", "a"}

IsWhitespace(c) == c = " "

StringsUpTo(n) == UNION {[1..k -> Chars] : k \in 0..n}

RECURSIVE TrimStart(_)
TrimStart(s) ==
    IF s # <<>> /\ IsWhitespace(Head(s)) THEN TrimStart(Tail(s)) ELSE s

RECURSIVE TrimEnd(_)
TrimEnd(s) ==
    IF s # <<>> /\ IsWhitespace(s[Len(s)])
    THEN TrimEnd(SubSeq(s, 1, Len(s) - 1))
    ELSE s

\* String.prototype.trim
Trim(s) == TrimEnd(TrimStart(s))

Max(a, b) == IF a >= b THEN a ELSE b
Min(a, b) == IF a <= b THEN a ELSE b

\* A text field of a JSON body: absent, a string, or a value of another
\* JavaScript type ("number"; val is then unused).
AbsentText == [tag |-> "absent", val |-> <<>>]
Text(s)    == [tag |-> "string", val |-> s]
NumberForText == [tag |-> "number", val |-> <<>>]

\* A key field of a JSON body (a style name, an aspect ratio): absent or a string.
AbsentKey == [tag |-> "absent", val |-> ""]
Key(k)    == [tag |-> "string", val |-> k]

\* JavaScript truthiness of a field: undefined and "" are falsy (the number
\* of NumberForText is a non-zero one)
TruthyText(f) == f.tag = "number" \/ (f.tag = "string" /\ f.val # <<>>)
TruthyKey(f)  == f.tag = "string" /\ f.val # ""

-----------------------------------------------------------------------------
(* Generate handler: src/web/src/app/api/generate/route.ts *)

STYLE_PRESETS ==
    [k \in {"figurative-ink", "digital-watercolor", "hyperreal-brush",
            "comic-neo", "concept-art"} |->
       CASE k = "figurative-ink" ->
              <<"intricate ink washes, elegant contour lines, subtle shading, gallery lighting">>
         [] k = "digital-watercolor" ->
              <<"digital watercolor washes, translucent pigments, soft gradients, expressive strokes">>
         [] k = "hyperreal-brush" ->
              <<"hyperreal digital painting, finely detailed skin texture, cinematic lighting, depth of field">>
         [] k = "comic-neo" ->
              <<"neo-noir comic rendering, bold inked shadows, halftone highlights, dramatic perspective">>
         [] k = "concept-art" ->
              <<"concept art matte painting, atmospheric depth, dynamic posing, professional artstation style">>]

\* STYLE_PRESETS is an object literal: a property read that finds no own
\* property continues in Object.prototype.  `text` is what a template
\* literal makes of the value found.
ObjectPrototype ==
    [k \in {"constructor", "__proto__"} |->
       CASE k = "constructor" -> <<"function Object() { [native code] }">>
         [] k = "__proto__"   -> <<"[object Object]">>]

Undefined == [defined |-> FALSE, text |-> <<>>]

\* STYLE_PRESETS[key]
PresetLookup(key) ==
    IF key \in DOMAIN STYLE_PRESETS
    THEN [defined |-> TRUE, text |-> STYLE_PRESETS[key]]
    ELSE IF key \in DOMAIN ObjectPrototype
    THEN [defined |-> TRUE, text |-> ObjectPrototype[key]]
    ELSE Undefined

\* const stylePreset = payload.style ? STYLE_PRESETS[payload.style] : undefined
StylePreset(styleField) ==
    IF TruthyKey(styleField) THEN PresetLookup(styleField.val) ELSE Undefined

\* const finalPrompt = stylePreset ? `${prompt}, ${stylePreset}` : prompt
FinalPrompt(trimmed, styleField) ==
    LET stylePreset == StylePreset(styleField)
    IN  IF stylePreset.defined /\ stylePreset.text # <<>>
        THEN trimmed \o <<", ">> \o stylePreset.text
        ELSE trimmed

\* 7.5, 1 and 20, in halves
DefaultGuidance == 15
MinCfgScale == 2
MaxCfgScale == 40

\* A guidance field: absent, a finite number (val, in halves), an infinite
\* number (JSON.parse reads 1e999 as Infinity) or a string.
AbsentGuidance   == [tag |-> "absent", val |-> 0]
Guidance(n)      == [tag |-> "number", val |-> n]
InfiniteGuidance == [tag |-> "infinity", val |-> 0]
StringGuidance   == [tag |-> "string", val |-> 0]

\* const cfgScale = typeof payload.guidance === "number" ? payload.guidance : 7.5
\* (an infinite number stays an infinite number)
CfgScaleOrDefault(g) ==
    IF g.tag \in {"number", "infinity"} THEN g ELSE Guidance(DefaultGuidance)

\* as CfgScale, with the clamp left out
CfgScaleUnclamped(g) ==
    LET cfgScale == CfgScaleOrDefault(g)
    IN  IF cfgScale.tag = "number" THEN cfgScale.val ELSE DefaultGuidance

\* cfg_scale: Number.isFinite(cfgScale) ? Math.max(1, Math.min(20, cfgScale)) : 7.5
CfgScale(g) ==
    LET cfgScale == CfgScaleOrDefault(g)
    IN  IF cfgScale.tag = "number"
        THEN Max(MinCfgScale, Min(MaxCfgScale, cfgScale.val))
        ELSE DefaultGuidance

\* const knockOut = (payload.negativePrompt || "").trim();  knockOut || undefined
NegativePromptSent(f) ==
    LET knockOut == IF TruthyText(f) THEN Trim(f.val) ELSE <<>>
    IN  IF knockOut # <<>> THEN Text(knockOut) ELSE AbsentText

\* const aspectRatio = payload.aspectRatio || "1:1"
AspectRatioSent(f) == IF TruthyKey(f) THEN f.val ELSE "1:1"

\* payload.prompt?.trim(): undefined for an absent prompt
TrimmedPrompt(f) == IF f.tag = "string" THEN Trim(f.val) ELSE <<>>

\* the body POSTed upstream (lines 69-76)
UpstreamBody(req) ==
    [prompt          |-> FinalPrompt(TrimmedPrompt(req.prompt), req.style),
     negative_prompt |-> NegativePromptSent(req.negativePrompt),
     aspect_ratio    |-> AspectRatioSent(req.aspectRatio),
     cfg_scale       |-> CfgScale(req.guidance)]

\* Request bodies.  body: "malformed" (request.json() rejects), "null"
\* (the JSON text null) or "object".
PromptFields ==
    {AbsentText, NumberForText} \cup {Text(s) : s \in StringsUpTo(MaxStrLen)}
StyleFields ==
    {AbsentKey} \cup {Key(k) : k \in DOMAIN STYLE_PRESETS
                                     \cup {"", "unknown-style", "constructor", "__proto__"}}
GuidanceFields ==
    {AbsentGuidance, InfiniteGuidance, StringGuidance}
        \cup {Guidance(n) : n \in (0 - GuidanceRange)..GuidanceRange}
NegativePromptFields == {AbsentText, Text(<<" ", "a">>)}
AspectRatioFields == {AbsentKey, Key("3:4")}

NoFields ==
    [prompt |-> AbsentText, style |-> AbsentKey, guidance |-> AbsentGuidance,
     negativePrompt |-> AbsentText, aspectRatio |-> AbsentKey]

GenerationPayloads ==
    {[body |-> b, fields |-> NoFields] : b \in {"malformed", "null"}}
    \cup
    {[body |-> "object",
      fields |-> [prompt |-> p, style |-> s, guidance |-> g,
                  negativePrompt |-> n, aspectRatio |-> a]] :
        p \in PromptFields, s \in StyleFields, g \in GuidanceFields,
        n \in NegativePromptFields, a \in AspectRatioFields}

NoGenResponse == [status |-> 0, base64Image |-> "", error |-> FALSE]
GenFailure(code) == [status |-> code, base64Image |-> "", error |-> TRUE]
GenSuccess(b64)  == [status |-> 200, base64Image |-> b64, error |-> FALSE]

\* POST, from entry to the first await of fetch (lines 30-86)
GenerateReceive ==
    /\ gPc = "idle"
    /\ \E key \in BOOLEAN, req \in GenerationPayloads :
         /\ gKey' = key
         /\ gReq' = req
         /\ IF ~key
            THEN gPc' = "responded" /\ gResp' = GenFailure(500) /\ UNCHANGED gCalls
            ELSE IF req.body = "malformed"
            THEN gPc' = "responded" /\ gResp' = GenFailure(400) /\ UNCHANGED gCalls
            ELSE IF req.body = "null" \/ req.fields.prompt.tag = "number"
            \* payload.prompt of null, or .trim of a number: TypeError, not caught
            THEN gPc' = "threw" /\ UNCHANGED <<gResp, gCalls>>
            ELSE IF TrimmedPrompt(req.fields.prompt) = <<>>
            THEN gPc' = "responded" /\ gResp' = GenFailure(400) /\ UNCHANGED gCalls
            ELSE /\ gCalls' = Append(gCalls, UpstreamBody(req.fields))
                 /\ gPc' = "awaitUpstream"
                 /\ UNCHANGED gResp
    /\ UNCHANGED <<gAnswers, uplVars, uiVars>>

\* What the upstream service can answer.  net: fetch rejects.  ok: response.ok.
\* json: the body parses as JSON.  base64: json.artifacts[0].base64, "" when
\* there is none.
UpstreamOutcomes ==
    {[net |-> TRUE, ok |-> FALSE, json |-> FALSE, base64 |-> ""]}
    \cup {[net |-> FALSE, ok |-> FALSE, json |-> j, base64 |-> ""] : j \in BOOLEAN}
    \cup {[net |-> FALSE, ok |-> TRUE, json |-> FALSE, base64 |-> ""]}
    \cup {[net |-> FALSE, ok |-> TRUE, json |-> TRUE, base64 |-> b] :
             b \in {"", "iVBOR1", "iVBOR2"}}

\* POST, from the answer of fetch to the end (lines 78-125)
GenerateUpstreamSettles ==
    /\ gPc = "awaitUpstream"
    /\ \E o \in UpstreamOutcomes :
         /\ gAnswers' = Append(gAnswers, o)
         /\ IF o.net
            \* fetch rejected; no try around it
            THEN gPc' = "threw" /\ UNCHANGED gResp
            ELSE IF ~o.ok
            THEN IF o.json
                 THEN gPc' = "responded" /\ gResp' = GenFailure(502)
                 \* response.json() rejected and consumed the body: response.text()
                 \* in the catch rejects too, and nothing catches that
                 ELSE gPc' = "threw" /\ UNCHANGED gResp
            ELSE IF ~o.json
            \* await response.json() rejected; no try around it
            THEN gPc' = "threw" /\ UNCHANGED gResp
            ELSE IF o.base64 = ""
            THEN gPc' = "responded" /\ gResp' = GenFailure(502)
            ELSE gPc' = "responded" /\ gResp' = GenSuccess(o.base64)
    /\ UNCHANGED <<gKey, gReq, gCalls, uplVars, uiVars>>

\* the next request is served by a fresh invocation
GenerateNextRequest ==
    /\ gPc \in {"responded", "threw"}
    /\ gPc' = "idle"
    /\ gKey' = FALSE
    /\ gReq' = [body |-> "malformed", fields |-> NoFields]
    /\ gCalls' = <<>>
    /\ gAnswers' = <<>>
    /\ gResp' = NoGenResponse
    /\ UNCHANGED <<uplVars, uiVars>>

-----------------------------------------------------------------------------
(* Upload handler: src/web/src/app/api/upload/route.ts *)

CredentialNames ==
    {"CLOUDINARY_CLOUD_NAME", "CLOUDINARY_API_KEY", "CLOUDINARY_API_SECRET",
     "INSTAGRAM_ACCESS_TOKEN", "INSTAGRAM_IG_USER_ID"}

\* ensureEnv returns normally for every name of the set
ensureEnv(env, names) == \A n \in names : env[n]

HashtagLine == <<"#aiart #figuredrawing #digitalart #agentic">>

\* as FilterBoolean, dropping the nulls only and keeping empty strings
RECURSIVE FilterNull(_)
FilterNull(segs) ==
    IF segs = <<>> THEN <<>>
    ELSE IF Head(segs).isNull
         THEN FilterNull(Tail(segs))
         ELSE <<Head(segs).text>> \o FilterNull(Tail(segs))

\* Array.prototype.filter(Boolean) on an array of strings and nulls; a null
\* is written as [isNull |-> TRUE]
RECURSIVE FilterBoolean(_)
FilterBoolean(segs) ==
    IF segs = <<>> THEN <<>>
    ELSE IF Head(segs).isNull \/ Head(segs).text = <<>>
         THEN FilterBoolean(Tail(segs))
         ELSE <<Head(segs).text>> \o FilterBoolean(Tail(segs))

\* Array.prototype.join(sep) on an array of strings
RECURSIVE Join(_, _)
Join(texts, sep) ==
    IF texts = <<>> THEN <<>>
    ELSE IF Len(texts) = 1 THEN Head(texts)
    ELSE Head(texts) \o sep \o Join(Tail(texts), sep)

Null == [isNull |-> TRUE, text |-> <<>>]
Segment(t) == [isNull |-> FALSE, text |-> t]

\* the array of lines 153-158, before filter and join
CaptionSegments(captionField, promptField, styleField) ==
    << Segment(IF captionField.tag = "string" THEN Trim(captionField.val) ELSE <<>>),
       IF TruthyText(promptField) THEN Segment(<<"Prompt: ">> \o promptField.val) ELSE Null,
       IF TruthyKey(styleField) THEN Segment(<<"Style: ", styleField.val>>) ELSE Null,
       Segment(HashtagLine) >>

\* finalCaption (lines 153-160)
finalCaption(captionField, promptField, styleField) ==
    Join(FilterBoolean(CaptionSegments(captionField, promptField, styleField)),
         <<"\n\n">>)

ImageDataFields == {AbsentKey, Key(""), Key("iVBOR1")}
CaptionFields ==
    {AbsentText, NumberForText} \cup {Text(t) : t \in StringsUpTo(MaxStrLen)}
UploadPromptFields == {AbsentText, Text(<<>>), Text(<<"a">>), Text(<<" ">>)}
UploadStyleFields == {AbsentKey, Key(""), Key("comic-neo")}

NoUploadFields ==
    [imageData |-> AbsentKey, caption |-> AbsentText, prompt |-> AbsentText,
     style |-> AbsentKey]

UploadPayloads ==
    {[body |-> b, fields |-> NoUploadFields] : b \in {"malformed", "null"}}
    \cup
    {[body |-> "object",
      fields |-> [imageData |-> i, caption |-> c, prompt |-> p, style |-> s]] :
        i \in ImageDataFields, c \in CaptionFields, p \in UploadPromptFields,
        s \in UploadStyleFields}

NoUploadResponse ==
    [status |-> 0, error |-> FALSE, imageUrl |-> "", containerId |-> "", publishId |-> ""]
\* as UploadFailure, without the hosted URL
UploadFailureWithoutUrl(code, url) ==
    [status |-> code, error |-> TRUE, imageUrl |-> "", containerId |-> "", publishId |-> ""]
UploadFailure(code, url) ==
    [status |-> code, error |-> TRUE, imageUrl |-> url, containerId |-> "", publishId |-> ""]
UploadSuccess(cid, pid, url) ==
    [status |-> 200, error |-> FALSE, imageUrl |-> url, containerId |-> cid, publishId |-> pid]

\* one outbound fetch
Call(endpoint, file, url, text, creation) ==
    [endpoint |-> endpoint, file |-> file, image_url |-> url, caption |-> text,
     creation_id |-> creation]

\* POST lines 21-55 with uploadToCloudinary lines 83-115: from entry to the
\* await of the hosting fetch
UploadReceive ==
    /\ uPc = "idle"
    /\ \E env \in [CredentialNames -> BOOLEAN], req \in UploadPayloads :
         /\ uEnv' = env
         /\ uReq' = req
         /\ IF req.body = "malformed"
            THEN uPc' = "responded" /\ uResp' = UploadFailure(400, "") /\ UNCHANGED uCalls
            ELSE IF req.body = "null"
            \* destructuring null (line 33): TypeError, outside every try
            THEN uPc' = "threw" /\ UNCHANGED <<uResp, uCalls>>
            ELSE IF ~TruthyKey(req.fields.imageData)
            THEN uPc' = "responded" /\ uResp' = UploadFailure(400, "") /\ UNCHANGED uCalls
            ELSE IF ~ensureEnv(env, {"CLOUDINARY_CLOUD_NAME", "CLOUDINARY_API_KEY",
                                     "CLOUDINARY_API_SECRET"})
            THEN uPc' = "responded" /\ uResp' = UploadFailure(502, "") /\ UNCHANGED uCalls
            ELSE /\ uCalls' = Append(uCalls,
                        Call("hosting", req.fields.imageData.val, "", <<>>, ""))
                 /\ uPc' = "awaitHosting"
                 /\ UNCHANGED uResp
    /\ UNCHANGED <<uAnswers, uUrl, uContainerId, genVars, uiVars>>

\* What an external endpoint can answer.  net: fetch rejects.  ok: response.ok.
\* json: the body parses as JSON.  id: the secure_url or id of the body, ""
\* when there is none.
Outcomes(ids) ==
    {[net |-> TRUE, ok |-> FALSE, json |-> FALSE, id |-> ""]}
    \cup {[net |-> FALSE, ok |-> k, json |-> FALSE, id |-> ""] : k \in BOOLEAN}
    \cup {[net |-> FALSE, ok |-> k, json |-> TRUE, id |-> i] :
             k \in BOOLEAN, i \in {""} \cup ids}

\* as HostingReturnsUrl, without the test of json.secure_url
HostingAnsweredOk(o) == ~o.net /\ o.ok /\ o.json

\* uploadToCloudinary returns json.secure_url (lines 109-130)
HostingReturnsUrl(o) == ~o.net /\ o.ok /\ o.json /\ o.id # ""

\* uploadToCloudinary lines 109-130, then POST lines 45-63 and
\* publishToInstagram lines 144-174: to the await of the container fetch
UploadHostingSettles ==
    /\ uPc = "awaitHosting"
    /\ \E o \in Outcomes({"https://res.cloudinary.com/1", "https://res.cloudinary.com/2"}) :
         /\ uAnswers' = Append(uAnswers, o)
         /\ IF ~HostingReturnsUrl(o)
            THEN /\ uPc' = "responded"
                 /\ uResp' = UploadFailure(502, "")
                 /\ UNCHANGED <<uUrl, uCalls>>
            ELSE /\ uUrl' = o.id
                 /\ IF ~ensureEnv(uEnv, {"INSTAGRAM_ACCESS_TOKEN", "INSTAGRAM_IG_USER_ID"})
                       \* caption?.trim of a number: TypeError, caught at line 69
                       \/ uReq.fields.caption.tag = "number"
                    THEN /\ uPc' = "responded"
                         /\ uResp' = UploadFailure(502, o.id)
                         /\ UNCHANGED uCalls
                    ELSE /\ uCalls' = Append(uCalls,
                                Call("container", "", o.id,
                                     finalCaption(uReq.fields.caption, uReq.fields.prompt,
                                                  uReq.fields.style), ""))
                         /\ uPc' = "awaitContainer"
                         /\ UNCHANGED uResp
    /\ UNCHANGED <<uEnv, uReq, uContainerId, genVars, uiVars>>

\* the answer carries an identifier: response.ok and json.id (lines 181, 206)
ReturnsId(o) == ~o.net /\ o.json /\ o.ok /\ o.id # ""

\* publishToInstagram lines 176-199: to the await of the publish fetch
UploadContainerSettles ==
    /\ uPc = "awaitContainer"
    /\ \E o \in Outcomes({"17890", "17891"}) :
         /\ uAnswers' = Append(uAnswers, o)
         /\ IF ~ReturnsId(o)
            THEN /\ uPc' = "responded"
                 /\ uResp' = UploadFailure(502, uUrl)
                 /\ UNCHANGED <<uContainerId, uCalls>>
            ELSE /\ uContainerId' = o.id
                 /\ uCalls' = Append(uCalls, Call("publish", "", "", <<>>, o.id))
                 /\ uPc' = "awaitPublish"
                 /\ UNCHANGED uResp
    /\ UNCHANGED <<uEnv, uReq, uUrl, genVars, uiVars>>

\* publishToInstagram lines 201-216, then POST lines 65-80
UploadPublishSettles ==
    /\ uPc = "awaitPublish"
    /\ \E o \in Outcomes({"18000", "18001"}) :
         /\ uAnswers' = Append(uAnswers, o)
         /\ uPc' = "responded"
         /\ uResp' = IF ~ReturnsId(o)
                     THEN UploadFailure(502, uUrl)
                     ELSE UploadSuccess(uContainerId, o.id, uUrl)
    /\ UNCHANGED <<uEnv, uReq, uCalls, uUrl, uContainerId, genVars, uiVars>>

\* the next request is served by a fresh invocation
UploadNextRequest ==
    /\ uPc \in {"responded", "threw"}
    /\ uPc' = "idle"
    /\ uEnv' = [n \in CredentialNames |-> FALSE]
    /\ uReq' = [body |-> "malformed", fields |-> NoUploadFields]
    /\ uCalls' = <<>>
    /\ uAnswers' = <<>>
    /\ uUrl' = ""
    /\ uContainerId' = ""
    /\ uResp' = NoUploadResponse
    /\ UNCHANGED <<genVars, uiVars>>

-----------------------------------------------------------------------------
(* ArtAgent component: src/web/src/components/ArtAgent.tsx *)

defaultPrompt ==
    <<"Portrait of a young artist sketching in a sunlit studio, expressive line art, soft pastel palette, hyperrealistic lighting">>
defaultCaption == <<"Daily figure drawing study · #art #figurestudy #digitalart">>

\* the options of the style <select>; the prompt and caption the user types
styles == DOMAIN STYLE_PRESETS
TypedPrompts == {defaultPrompt, <<"a">>}
ChosenStyles == {"figurative-ink", "comic-neo"}
TypedCaptions == {defaultCaption, <<>>}

NoMeta == [set |-> FALSE, model |-> "", prompt |-> <<>>, style |-> ""]

\* const latestImage = history.at(0) ?? null
HasLatestImage == history # <<>>
latestImage == history[1]

\* as GenerateDisabled, for a button that is never disabled
GenerateNeverDisabled == FALSE

\* disabled={isGenerating}
GenerateDisabled == isGenerating
\* disabled={!latestImage || isUploading}
UploadDisabled == ~HasLatestImage \/ isUploading

\* onChange of the prompt, style and caption controls
SetPrompt ==
    /\ \E p \in TypedPrompts : p # prompt /\ prompt' = p
    /\ UNCHANGED <<style, caption, isGenerating, isUploading, generationError,
                   uploadError, generationMeta, history, genInFlight, uplInFlight,
                   clock, succeeded, genVars, uplVars>>

SetStyle ==
    /\ \E k \in ChosenStyles : k # style /\ style' = k
    /\ UNCHANGED <<prompt, caption, isGenerating, isUploading, generationError,
                   uploadError, generationMeta, history, genInFlight, uplInFlight,
                   clock, succeeded, genVars, uplVars>>

SetCaption ==
    /\ \E c \in TypedCaptions : c # caption /\ caption' = c
    /\ UNCHANGED <<prompt, style, isGenerating, isUploading, generationError,
                   uploadError, generationMeta, history, genInFlight, uplInFlight,
                   clock, succeeded, genVars, uplVars>>

\* generations started so far
Started == Len(history) + Len(genInFlight)

\* a click on the Generate button: generate, lines 80-92, to the await
generate ==
    /\ ~GenerateDisabled
    /\ Started < MaxGenerations
    /\ isGenerating' = TRUE
    /\ generationError' = "null"
    /\ uploadError' = "null"
    /\ genInFlight' = Append(genInFlight, [prompt |-> prompt, style |-> style])
    /\ UNCHANGED <<prompt, style, caption, isUploading, generationMeta, history,
                   uplInFlight, clock, succeeded, genVars, uplVars>>

\* bodies of a 200 answer of /api/generate (inferenceTime, which is only
\* displayed, is left out)
GenerationResponses ==
    {[base64Image |-> b, model |-> "core"] : b \in {"iVBOR1", "iVBOR2"}}

\* as generateResolves, with the new entry put at the end of the history
generateResolvesAppends ==
    /\ genInFlight # <<>>
    /\ clock' \in {clock, clock + 1}
    /\ \E data \in GenerationResponses :
         LET call == Head(genInFlight)
         IN  /\ generationMeta' = [set |-> TRUE, model |-> data.model,
                                   prompt |-> call.prompt, style |-> call.style]
             /\ history' = history \o
                           <<[base64 |-> data.base64Image, createdAt |-> clock',
                              prompt |-> call.prompt, style |-> call.style]>>
    /\ genInFlight' = Tail(genInFlight)
    /\ isGenerating' = FALSE
    /\ succeeded' = succeeded + 1
    /\ UNCHANGED <<prompt, style, caption, isUploading, generationError, uploadError,
                   uplInFlight, genVars, uplVars>>

\* as generateResolves, with the pending upload following the latest image
generateResolvesRebindsUpload ==
    /\ genInFlight # <<>>
    /\ clock' \in {clock, clock + 1}
    /\ \E data \in GenerationResponses :
         LET call == Head(genInFlight)
         IN  /\ generationMeta' = [set |-> TRUE, model |-> data.model,
                                   prompt |-> call.prompt, style |-> call.style]
             /\ history' = <<[base64 |-> data.base64Image, createdAt |-> clock',
                              prompt |-> call.prompt, style |-> call.style]>>
                           \o history
             /\ uplInFlight' = [k \in 1..Len(uplInFlight) |->
                                  [imageData |-> data.base64Image,
                                   caption |-> uplInFlight[k].caption,
                                   prompt |-> call.prompt, style |-> call.style]]
    /\ genInFlight' = Tail(genInFlight)
    /\ isGenerating' = FALSE
    /\ succeeded' = succeeded + 1
    /\ UNCHANGED <<prompt, style, caption, isUploading, generationError, uploadError,
                   genVars, uplVars>>

\* generate, lines 92-107 and 113-115: postJSON resolved
\* (Date.now(), line 102, reads the previous reading or a later one)
generateResolves ==
    /\ genInFlight # <<>>
    /\ clock' \in {clock, clock + 1}
    /\ \E data \in GenerationResponses :
         LET call == Head(genInFlight)
         IN  /\ generationMeta' = [set |-> TRUE, model |-> data.model,
                                   prompt |-> call.prompt, style |-> call.style]
             /\ history' = <<[base64 |-> data.base64Image, createdAt |-> clock',
                              prompt |-> call.prompt, style |-> call.style]>>
                           \o history
    /\ genInFlight' = Tail(genInFlight)
    /\ isGenerating' = FALSE
    /\ succeeded' = succeeded + 1
    /\ UNCHANGED <<prompt, style, caption, isUploading, generationError, uploadError,
                   uplInFlight, genVars, uplVars>>

\* the message of the Error postJSON throws (line 30)
ErrorTexts == {"Request failed with 502"}

\* as generateRejects, without the finally block
generateRejectsKeepsFlag ==
    /\ genInFlight # <<>>
    /\ \E text \in ErrorTexts : generationError' = text
    /\ genInFlight' = Tail(genInFlight)
    /\ UNCHANGED <<prompt, style, caption, isGenerating, isUploading, uploadError,
                   generationMeta, history, uplInFlight, clock, succeeded, genVars,
                   uplVars>>

\* generate, lines 108-115: postJSON rejected
generateRejects ==
    /\ genInFlight # <<>>
    /\ \E text \in ErrorTexts : generationError' = text
    /\ genInFlight' = Tail(genInFlight)
    /\ isGenerating' = FALSE
    /\ UNCHANGED <<prompt, style, caption, isUploading, uploadError, generationMeta,
                   history, uplInFlight, clock, succeeded, genVars, uplVars>>

\* as upload, sending the prompt and style of the form instead of those of
\* the latest image
uploadSendsFormFields ==
    /\ ~UploadDisabled
    /\ HasLatestImage
    /\ isUploading' = TRUE
    /\ uploadError' = "null"
    /\ uplInFlight' = Append(uplInFlight,
                             [imageData |-> latestImage.base64, caption |-> caption,
                              prompt |-> prompt, style |-> style])
    /\ UNCHANGED <<prompt, style, caption, isGenerating, generationError,
                   generationMeta, history, genInFlight, clock, succeeded, genVars,
                   uplVars>>

\* a click on the Upload button: upload, lines 118-134, to the await
upload ==
    /\ ~UploadDisabled
    /\ HasLatestImage
    /\ isUploading' = TRUE
    /\ uploadError' = "null"
    /\ uplInFlight' = Append(uplInFlight,
                             [imageData |-> latestImage.base64, caption |-> caption,
                              prompt |-> latestImage.prompt, style |-> latestImage.style])
    /\ UNCHANGED <<prompt, style, caption, isGenerating, generationError,
                   generationMeta, history, genInFlight, clock, succeeded, genVars, uplVars>>

\* upload, lines 131-134 and 140-142: postJSON resolved
uploadResolves ==
    /\ uplInFlight # <<>>
    /\ uplInFlight' = Tail(uplInFlight)
    /\ isUploading' = FALSE
    /\ UNCHANGED <<prompt, style, caption, isGenerating, generationError, uploadError,
                   generationMeta, history, genInFlight, clock, succeeded, genVars, uplVars>>

\* upload, lines 135-142: postJSON rejected
uploadRejects ==
    /\ uplInFlight # <<>>
    /\ \E text \in ErrorTexts : uploadError' = text
    /\ uplInFlight' = Tail(uplInFlight)
    /\ isUploading' = FALSE
    /\ UNCHANGED <<prompt, style, caption, isGenerating, generationError,
                   generationMeta, history, genInFlight, clock, succeeded, genVars, uplVars>>

-----------------------------------------------------------------------------
(* Specifications *)

GenInit ==
    /\ gPc = "idle"
    /\ gKey = FALSE
    /\ gReq = [body |-> "malformed", fields |-> NoFields]
    /\ gCalls = <<>>
    /\ gAnswers = <<>>
    /\ gResp = NoGenResponse

UploadInit ==
    /\ uPc = "idle"
    /\ uEnv = [n \in CredentialNames |-> FALSE]
    /\ uReq = [body |-> "malformed", fields |-> NoUploadFields]
    /\ uCalls = <<>>
    /\ uAnswers = <<>>
    /\ uUrl = ""
    /\ uContainerId = ""
    /\ uResp = NoUploadResponse

\* the useState initial values, lines 56-73
UIInit ==
    /\ prompt = defaultPrompt
    /\ style = "figurative-ink"
    /\ caption = defaultCaption
    /\ isGenerating = FALSE
    /\ isUploading = FALSE
    /\ generationError = "null"
    /\ uploadError = "null"
    /\ generationMeta = NoMeta
    /\ history = <<>>
    /\ genInFlight = <<>>
    /\ uplInFlight = <<>>
    /\ clock = 0
    /\ succeeded = 0

Init == GenInit /\ UploadInit /\ UIInit

GenNext ==
    \/ GenerateReceive
    \/ GenerateUpstreamSettles
    \/ GenerateNextRequest

UploadNext ==
    \/ UploadReceive
    \/ UploadHostingSettles
    \/ UploadContainerSettles
    \/ UploadPublishSettles
    \/ UploadNextRequest

UINext ==
    \/ SetPrompt
    \/ SetStyle
    \/ SetCaption
    \/ generate
    \/ generateResolves
    \/ generateRejects
    \/ upload
    \/ uploadResolves
    \/ uploadRejects

\* the Generate handler serving requests
GenSpec == Init /\ [][GenNext]_vars
\* the Upload handler serving requests
UploadSpec == Init /\ [][UploadNext]_vars
\* one session of the ArtAgent component
UISpec == Init /\ [][UINext]_vars
\* one session of the ArtAgent component in which every handler call settles:
\* a pending postJSON promise is eventually resolved or rejected
UIFairSpec ==
    /\ Init /\ [][UINext]_vars
    /\ WF_vars(generateResolves \/ generateRejects)
    /\ WF_vars(uploadResolves \/ uploadRejects)

-----------------------------------------------------------------------------
(* Properties of the Generate handler, under GenSpec *)

\* the invocation has ended: it responded, or threw to the framework
GenDone == gPc \in {"responded", "threw"}

\* the body parsed as JSON and its prompt is absent, empty or whitespace-only
PromptMissing ==
    /\ gReq.body \in {"null", "object"}
    /\ \/ gReq.fields.prompt.tag = "absent"
       \/ gReq.fields.prompt.tag = "string" /\ Trim(gReq.fields.prompt.val) = <<>>

\* C1: every Generate request whose prompt is absent, empty or
\* whitespace-only is answered with status 400, whatever the configuration,
\* and without a call to the upstream service.
C1_MissingPromptIs400 ==
    (GenDone /\ PromptMissing) => (gResp.status = 400 /\ gCalls = <<>>)

\* the upstream call was answered, and the answer is not OK
UpstreamNotOk == gAnswers # <<>> /\ ~gAnswers[1].net /\ ~gAnswers[1].ok
\* the upstream call was answered OK with JSON that holds no image artifact
UpstreamNoArtifact ==
    /\ gAnswers # <<>>
    /\ ~gAnswers[1].net /\ gAnswers[1].ok /\ gAnswers[1].json
    /\ gAnswers[1].base64 = ""

\* C6: the Generate handler ends with 400 for a malformed body or a missing
\* prompt, 500 when the credential is absent, 502 when the upstream call is
\* not OK or its OK answer holds no image artifact, and 200 with a non-empty
\* base64Image only when the upstream call was OK and its first artifact has
\* a base64 payload.
C6_GenerateStatuses ==
    GenDone =>
      /\ ~gKey => gResp.status = 500
      /\ (gKey /\ (gReq.body = "malformed" \/ PromptMissing)) => gResp.status = 400
      /\ (UpstreamNotOk \/ UpstreamNoArtifact) => gResp.status = 502
      /\ gResp.status = 200 =>
            /\ gResp.base64Image # ""
            /\ gAnswers # <<>> /\ gAnswers[1].ok /\ gAnswers[1].base64 = gResp.base64Image

\* C7: the prompt forwarded upstream is the trimmed prompt followed by ", "
\* and the descriptor of the style key when the key is one of the five
\* presets, and is exactly the trimmed prompt for every other or absent style.
C7_StyleDescriptorAppended ==
    gCalls # <<>> =>
      LET P == Trim(gReq.fields.prompt.val)
          s == gReq.fields.style
      IN  gCalls[1].prompt =
            IF s.tag = "string" /\ s.val \in DOMAIN STYLE_PRESETS
            THEN P \o <<", ">> \o STYLE_PRESETS[s.val]
            ELSE P

\* C8: the cfg_scale forwarded upstream lies in [1, 20] (2..40 halves): a
\* finite guidance below 1 is sent as 1, above 20 as 20, inside unchanged;
\* an absent, non-numeric or non-finite guidance is sent as 7.5 (15 halves).
C8_CfgScaleClamped ==
    gCalls # <<>> =>
      LET g == gReq.fields.guidance
          c == gCalls[1].cfg_scale
      IN  /\ c \in 2..40
          /\ g.tag = "number" =>
               /\ g.val < 2 => c = 2
               /\ g.val > 40 => c = 40
               /\ g.val \in 2..40 => c = g.val
          /\ g.tag # "number" => c = 15

\* a call went upstream for a guidance above 20 and carried 20
C8_Witness ==
    /\ gCalls # <<>>
    /\ gReq.fields.guidance.tag = "number"
    /\ gReq.fields.guidance.val > 40
    /\ gCalls[1].cfg_scale = 40

-----------------------------------------------------------------------------
(* Properties of the Upload handler, under UploadSpec *)

UploadDone == uPc \in {"responded", "threw"}

\* the request carries no image data: imageData is missing or empty
ImageDataMissing == ~TruthyKey(uReq.fields.imageData)

\* C2: every Upload request whose imageData is missing or empty is answered
\* with status 400 and none of the three external endpoints is called.
C2_MissingImageDataIs400 ==
    (UploadDone /\ ImageDataMissing) => (uResp.status = 400 /\ uCalls = <<>>)

Endpoints == [i \in 1..Len(uCalls) |-> uCalls[i].endpoint]

\* hosting returned a durable URL: the first answer is OK with a secure_url
HostingSucceeded ==
    /\ uAnswers # <<>>
    /\ ~uAnswers[1].net /\ uAnswers[1].ok /\ uAnswers[1].json /\ uAnswers[1].id # ""

\* the i-th call was answered OK with an identifier
AnsweredWithId(i) ==
    /\ Len(uAnswers) >= i
    /\ ~uAnswers[i].net /\ uAnswers[i].ok /\ uAnswers[i].json /\ uAnswers[i].id # ""

\* C3: the outbound calls of one Upload invocation are a prefix of (hosting,
\* container creation, publish), each made at most once; the container call
\* is made only after hosting returned a URL and the publish call only after
\* container creation returned an identifier; when hosting fails neither
\* social-platform endpoint is called.
C3_CallsInOrder ==
    /\ Endpoints \in {<<>>, <<"hosting">>, <<"hosting", "container">>,
                      <<"hosting", "container", "publish">>}
    /\ Len(uCalls) >= 2 =>
          (HostingSucceeded /\ uCalls[2].image_url = uAnswers[1].id)
    /\ Len(uCalls) >= 3 =>
          (AnsweredWithId(2) /\ uCalls[3].creation_id = uAnswers[2].id)
    /\ (UploadDone /\ ~HostingSucceeded) => Len(uCalls) <= 1

\* hosting was called and did not return a URL, and the handler has answered
C3_Witness ==
    /\ uPc = "responded"
    /\ Len(uCalls) = 1
    /\ uAnswers # <<>> /\ ~HostingSucceeded

\* C4: when hosting succeeded and the publish step then fails (a missing
\* credential, no container identifier, no publish identifier), the answer
\* has status 502 and its imageUrl is the URL hosting returned.
C4_FailureCarriesImageUrl ==
    (uPc = "responded" /\ HostingSucceeded /\ uResp.status # 200) =>
        (uResp.status = 502 /\ uResp.error /\ uResp.imageUrl = uAnswers[1].id)

\* publication returned no identifier after hosting and container creation
\* succeeded
C4_Witness ==
    /\ uPc = "responded"
    /\ HostingSucceeded
    /\ Len(uAnswers) = 3 /\ ~AnsweredWithId(3)
    /\ uResp.status = 502

\* C5: the Upload handler answers 200 exactly when hosting, container
\* creation and publication all succeeded, then with the non-empty identifiers
\* and URL they returned; every other outcome is a failure with status 400
\* (missing image data or malformed body) or 502 (hosting or publish).
C5_UploadStatuses ==
    UploadDone =>
      /\ uResp.status \in {200, 400, 502}
      /\ uResp.status = 200 <=>
            (HostingSucceeded /\ AnsweredWithId(2) /\ AnsweredWithId(3))
      /\ uResp.status = 200 =>
            /\ uResp.imageUrl = uAnswers[1].id /\ uResp.imageUrl # ""
            /\ uResp.containerId = uAnswers[2].id /\ uResp.containerId # ""
            /\ uResp.publishId = uAnswers[3].id /\ uResp.publishId # ""
      /\ uResp.status = 400 <=> (uReq.body = "malformed" \/ ImageDataMissing)

\* the caption of the claim, written out segment by segment
ExpectedCaption(c, p, s) ==
    (IF c.tag = "string" /\ Trim(c.val) # <<>> THEN Trim(c.val) \o <<"\n\n">> ELSE <<>>)
    \o (IF p.tag = "string" /\ p.val # <<>>
        THEN <<"Prompt: ">> \o p.val \o <<"\n\n">> ELSE <<>>)
    \o (IF s.tag = "string" /\ s.val # ""
        THEN <<"Style: ", s.val, "\n\n">> ELSE <<>>)
    \o <<"#aiart #figuredrawing #digitalart #agentic">>

\* C9: the caption sent to container creation is the non-empty segments among
\* (trimmed caption, "Prompt: <prompt>", "Style: <style>", hashtag line), in
\* that order, joined by a blank line; for caption A, prompt B, style C it is
\* A, Prompt: B, Style: C, hashtag line; an empty or whitespace-only caption
\* adds no leading segment and the hashtag line is always the last segment.
C9_CaptionComposition ==
    Len(uCalls) >= 2 =>
      LET f == uReq.fields
          sent == uCalls[2].caption
      IN  /\ sent = ExpectedCaption(f.caption, f.prompt, f.style)
          /\ sent[Len(sent)] = "#aiart #figuredrawing #digitalart #agentic"
          /\ (f.caption = Text(<<"a">>) /\ f.prompt = Text(<<"a">>)
                /\ f.style = Key("comic-neo")) =>
               sent = <<"a", "\n\n", "Prompt: ", "a", "\n\n", "Style: ", "comic-neo",
                        "\n\n", "#aiart #figuredrawing #digitalart #agentic">>
          /\ (f.caption.tag = "absent" \/ Trim(f.caption.val) = <<>>) =>
               sent[1] \in {"Prompt: ", "Style: ",
                            "#aiart #figuredrawing #digitalart #agentic"}

\* a container was created for a whitespace-only caption with prompt and style
C9_Witness ==
    /\ Len(uCalls) >= 2
    /\ uReq.fields.caption \in {Text(<<" ">>), Text(<<" ", " ">>)}
    /\ uReq.fields.prompt = Text(<<"a">>)
    /\ uReq.fields.style = Key("comic-neo")
    /\ uCalls[2].caption[1] = "Prompt: "

-----------------------------------------------------------------------------
(* Properties of the ArtAgent component, under UISpec *)

\* C10: a Generate action starts only while no generation is in flight, an
\* Upload action only while the history is non-empty and no upload is in
\* flight; so at most one generation and at most one upload are in flight and
\* no upload request is issued while the history is empty.  A generation in
\* flight does not disable Upload and an upload in flight does not disable
\* Generate.
C10_OneInFlightEach ==
    /\ [](Len(genInFlight) <= 1 /\ Len(uplInFlight) <= 1)
    /\ [](uplInFlight # <<>> => history # <<>>)
    /\ [][Len(genInFlight') > Len(genInFlight) => genInFlight = <<>>]_vars
    /\ [][Len(uplInFlight') > Len(uplInFlight) =>
            (history # <<>> /\ uplInFlight = <<>>)]_vars
    /\ []((genInFlight # <<>> /\ history # <<>> /\ uplInFlight = <<>>)
            => ~UploadDisabled)
    /\ []((uplInFlight # <<>> /\ genInFlight = <<>>) => ~GenerateDisabled)

\* a generation and an upload are in flight together
C10_Witness ==
    /\ genInFlight # <<>> /\ isGenerating
    /\ uplInFlight # <<>> /\ isUploading

\* C11: the history changes only by a successful generation, which prepends
\* one entry (image, timestamp, the prompt and style the request was sent
\* with) and replaces the metadata; the history is ordered most recent first,
\* its length is the number of successful generations, its entries are never
\* removed, reordered or modified, and a failed generation or any upload
\* outcome leaves the history and the metadata unchanged.
C11_HistoryGrowsAtHead ==
    /\ [](Len(history) = succeeded)
    /\ [](\A i, j \in 1..Len(history) :
            i < j => history[i].createdAt >= history[j].createdAt)
    /\ [][history' # history =>
            /\ genInFlight # <<>> /\ genInFlight' = Tail(genInFlight)
            /\ history' # <<>> /\ Tail(history') = history
            /\ history'[1].base64 \in {r.base64Image : r \in GenerationResponses}
            /\ history'[1].createdAt = clock'
            /\ history'[1].prompt = Head(genInFlight).prompt
            /\ history'[1].style = Head(genInFlight).style
            /\ generationMeta'.set
            /\ generationMeta'.prompt = Head(genInFlight).prompt
            /\ generationMeta'.style = Head(genInFlight).style]_vars
    /\ [][history' = history => generationMeta' = generationMeta]_vars
    /\ [][(generateRejects \/ uploadResolves \/ uploadRejects) =>
            UNCHANGED <<history, generationMeta>>]_vars

\* two generations have succeeded at different times, for different prompts
C11_Witness ==
    /\ Len(history) = 2 /\ succeeded = 2
    /\ history[1].createdAt > history[2].createdAt
    /\ history[1].prompt # history[2].prompt

\* the upload payload carries the image, prompt and style of the entry
Carries(payload, entry) ==
    /\ payload.imageData = entry.base64
    /\ payload.prompt = entry.prompt
    /\ payload.style = entry.style

\* C12: every upload request carries the image, prompt and style of the head
\* entry of the history at the moment the Upload action started; so the
\* payload of an in-flight upload is always an entry of the current history.
C12_UploadCarriesHistoryEntry ==
    /\ [][Len(uplInFlight') > Len(uplInFlight) =>
            /\ history # <<>>
            /\ Carries(uplInFlight'[Len(uplInFlight')], history[1])]_vars
    /\ [](\A k \in 1..Len(uplInFlight) :
            \E i \in 1..Len(history) : Carries(uplInFlight[k], history[i]))

\* an upload is in flight while the form holds another prompt than the one
\* the uploaded image was generated from
C12_Witness ==
    /\ uplInFlight # <<>>
    /\ Carries(uplInFlight[1], history[1])
    /\ prompt # uplInFlight[1].prompt

\* C13: a generation and an upload can be in flight together; a generation
\* that completes while an upload is in flight puts its image at the head of
\* the history (the displayed image) and leaves the payload of the upload
\* unchanged; no step alters the payload of an upload after it started.  The
\* witness is the state in which the image being published is not the image
\* displayed.
C13_PayloadFixedAtStart ==
    /\ [][(uplInFlight # <<>> /\ uplInFlight' # <<>>) =>
            uplInFlight' = uplInFlight]_vars
    /\ [][(uplInFlight # <<>> /\ Len(genInFlight') < Len(genInFlight)
             /\ succeeded' > succeeded) =>
            /\ uplInFlight' = uplInFlight
            /\ history' # <<>> /\ Tail(history') = history
            /\ history'[1].prompt = Head(genInFlight).prompt]_vars

\* the image of the upload in flight is not the image displayed
C13_Witness ==
    /\ uplInFlight # <<>> /\ isUploading
    /\ history # <<>>
    /\ uplInFlight[1].imageData # latestImage.base64
    /\ \E i \in 2..Len(history) : Carries(uplInFlight[1], history[i])

-----------------------------------------------------------------------------
(* Properties of the ArtAgent component, under UIFairSpec *)

\* C14: when the handler call of a started Generate or Upload action settles,
\* with success or failure, the action's own in-progress flag becomes false
\* and its control is enabled again; a failure stores a non-null error text
\* for that action and starts no request; a request starts only by a new
\* click; and, every handler call settling eventually, isGenerating and
\* isUploading are each eventually false again.
C14_FlagsResetOnSettle ==
    /\ [][Len(genInFlight') < Len(genInFlight) =>
            (~isGenerating' /\ ~GenerateDisabled')]_vars
    /\ [][Len(uplInFlight') < Len(uplInFlight) =>
            (~isUploading' /\ ~UploadDisabled')]_vars
    /\ [][generateRejects =>
            /\ generationError' # "null"
            /\ Len(genInFlight') < Len(genInFlight)
            /\ uplInFlight' = uplInFlight]_vars
    /\ [][uploadRejects =>
            /\ uploadError' # "null"
            /\ Len(uplInFlight') < Len(uplInFlight)
            /\ genInFlight' = genInFlight]_vars
    /\ [][Len(genInFlight') > Len(genInFlight) => (~isGenerating /\ isGenerating')]_vars
    /\ [][Len(uplInFlight') > Len(uplInFlight) => (~isUploading /\ isUploading')]_vars
    /\ []<>~isGenerating
    /\ []<>~isUploading

\* a generation and an upload have failed: flags reset, error texts stored,
\* with nothing in flight
C14_Witness ==
    /\ generationError # "null"
    /\ ~isGenerating /\ genInFlight = <<>>
    /\ uploadError # "null"
    /\ ~isUploading /\ uplInFlight = <<>>

=============================================================================
